---------------------------- MODULE Spec2Model ----------------------------
(***************************************************************************)
(* Pattern Prophet: the adaptive pattern-puzzle engine of survey-codex.    *)
(*                                                                         *)
(*   BasePattern            src/unnamed/part_004 (base-pattern.ts)         *)
(*   VisualSequencePattern  src/lib/patterns/visual-sequence-pattern.ts    *)
(*   PatternFactory         src/unnamed/part_002 (pattern-factory.ts)      *)
(*   user data store        src/lib/stores/user-data-store.ts              *)
(*   IndexedDBService       src/unnamed/part_001                           *)
(*                                                                         *)
(* Number representation.  The engine computes with JavaScript numbers.    *)
(* Every quantity the model needs is a multiple of a fixed unit, so it is  *)
(* kept as an exact integer count of that unit:                            *)
(*   difficulty   in half steps        (Diff(d) = 2*d, so 0.5 is 1)        *)
(*   confidence   in sixtieths         (Conf(t) = 6*t for t tenths; 60 is  *)
(*                1.0; k/n is exact for every solution length n in 1..5)   *)
(*   timeSpent    in tenths of seconds (Seconds(s) = 10*s)                 *)
(*   rates        as fractions [num, den] compared by cross-multiplication *)
(* Strings built by template literals are tuples of their pieces.          *)
(* `undefined` is the string "undefined".                                  *)
(***************************************************************************)
EXTENDS Integers, Sequences, FiniteSets, TLC

VARIABLES
    config,                \* BasePattern.config (this.config)
    progress,              \* BasePattern.progress (this.progress)
    lastGeneratedPattern,  \* VisualSequencePattern.lastGeneratedPattern
    history,               \* the host's attempt history for this user
    adaptResult,           \* value returned by the last adaptDifficulty call
    puzzle,                \* config returned to the caller by its last generate()
    generated,             \* config produced by the most recent generate()
                           \* invocation, the caller's or validateSolution's own
    generatedRule,         \* `rule` chosen inside that invocation
    attempt,               \* argument of the last validateSolution call
    solutions,             \* `solutions` that call scored the attempt against
    validation,            \* value returned by that call
    fallbacks,             \* times that call took the generate-and-retry branch
    detected,              \* value returned by the last detectInteractionPattern
    hint,                  \* value returned by the last getHint call
    updated,               \* argument of the last updateProgress call
    updateCalls,           \* updateProgress calls made on the engine so far
    created,               \* outcome of the last PatternFactory.createPattern
    interactionPatterns,   \* the user data store's interactionPatterns list
    loadedPatterns,        \* that list as it was when the store was loaded
    behavioralData,        \* the IndexedDB object store 'behavioralData'
    tracking,              \* each trackInteractionPattern call: where it is
                           \* and the locals it holds across its await
    now,                   \* Date.now()
    lastCall               \* the caller's most recent operation

vars == <<config, progress, lastGeneratedPattern, history, adaptResult, puzzle,
          generated, generatedRule, attempt, solutions, validation, fallbacks,
          detected, hint, updated, updateCalls, created, interactionPatterns,
          loadedPatterns, behavioralData, tracking, now, lastCall>>

engineVars == <<config, progress>>
adaptVars == <<history, adaptResult>>
genVars == <<lastGeneratedPattern, puzzle, generated, generatedRule, attempt,
             solutions, validation, fallbacks>>
detectVars == <<detected, hint>>
progressVars == <<updated, updateCalls>>
factoryVars == <<created>>
storeVars == <<interactionPatterns, loadedPatterns, behavioralData, tracking, now>>

-----------------------------------------------------------------------------
(* Bounds of the model *)

\* longest attempt history the host hands to adaptDifficulty
MaxHist == 5

\* nested validateSolution fallbacks the model follows before it reports the
\* call as still recursing
MaxFallbacks == 2

\* trackInteractionPattern calls that may be in flight or finished
MaxCalls == 2

\* readings of the millisecond clock the model distinguishes
MaxNow == 1

-----------------------------------------------------------------------------
(* Units and small helpers *)

Diff(d) == 2 * d
Conf(tenths) == 6 * tenths
Seconds(s) == 10 * s

Min(a, b) == IF a < b THEN a ELSE b
Max(a, b) == IF a > b THEN a ELSE b

Rat(n, d) == [num |-> n, den |-> d]
Gt(a, b) == a.num * b.den > b.num * a.den
Lt(a, b) == a.num * b.den < b.num * a.den
Eq(a, b) == a.num * b.den = b.num * a.den

Undefined == "undefined"
NoResult == "none"

\* an optional field that is not set, a call that has not been made
NoPattern == [patternType |-> Undefined]
NoRule == [type |-> Undefined]
NoValidation == [isValid |-> Undefined]
NoAttempt == [isCorrect |-> Undefined]

\* a validateSolution call that is still recursing at depth MaxFallbacks
\* (in the engine: RangeError, maximum call stack size exceeded)
StillRecursing == [isValid |-> "RangeError"]

NoProgress == [userId |-> Undefined]

\* difficulty is a number on a 1-10 scale; adaptDifficulty moves it in steps
\* of 0.5, so the hosts' values are the half steps of [1, 10]
Difficulties == Diff(1) .. Diff(10)

-----------------------------------------------------------------------------
(* PatternFactory *)

getDefaultConfig(type, difficulty) ==
    [patternType |-> type,
     difficulty |-> difficulty,
     elements |-> <<>>,
     validSolutions |-> <<>>,
     hints |-> <<>>,
     accessibilityFeatures |->
        [highContrast |-> TRUE, reducedMotion |-> TRUE,
         audioDescriptions |-> TRUE, keyboardNavigation |-> TRUE]]

getDefaultProgress(userId, patternType) ==
    [userId |-> userId,
     patternType |-> patternType,
     currentDifficulty |-> Diff(1),
     totalAttempts |-> 0,
     successfulAttempts |-> 0,
     averageTimeToSolve |-> Rat(0, 1),
     preferredStrategies |-> <<>>,
     \* new Date(): the clock reading is named by the call that took it
     lastPlayed |-> "getDefaultProgress",
     masteryLevel |-> Rat(0, 1)]

\* the PatternType union, and a value from outside it for the default branch
PatternTypes == {"visual-sequence", "number", "musical", "spatial", "rule-based"}
UnknownType == "crossword"

createPatternAnyType(type, cfg, p) ==
    [type |-> type, returned |-> "VisualSequencePattern", thrown |-> Undefined]

\* PatternFactory.createPattern: what the call returns or throws
createPattern(type, cfg, p) ==
    CASE type = "visual-sequence" ->
            [type |-> type, returned |-> "VisualSequencePattern",
             thrown |-> Undefined]
      [] type = "number" ->
            [type |-> type, returned |-> Undefined,
             thrown |-> "NumberPattern not yet implemented"]
      [] type = "musical" ->
            [type |-> type, returned |-> Undefined,
             thrown |-> "MusicalPattern not yet implemented"]
      [] type = "spatial" ->
            [type |-> type, returned |-> Undefined,
             thrown |-> "SpatialRotationPattern not yet implemented"]
      [] type = "rule-based" ->
            [type |-> type, returned |-> Undefined,
             thrown |-> "RuleBasedPattern not yet implemented"]
      [] OTHER ->
            [type |-> type, returned |-> Undefined,
             thrown |-> "Unknown pattern type: crossword"]

NotCreated == [type |-> Undefined, returned |-> Undefined, thrown |-> Undefined]

-----------------------------------------------------------------------------
(* User data store: its state while no trackInteractionPattern call runs *)

Calls == 1 .. MaxCalls
NotCalled == [pc |-> "notCalled"]

\* the store after loading `list` from the user's profile
StoreLoaded(list) ==
    /\ interactionPatterns = list
    /\ loadedPatterns = list
    /\ behavioralData = {}
    /\ tracking = [c \in Calls |-> NotCalled]
    /\ now = 0

-----------------------------------------------------------------------------
(* BasePattern: difficulty adaptation *)

\* a.isCorrect || a.confidence > 0.7
IsSuccessful(a) == a.isCorrect \/ a.confidence > Conf(7)

calculateSuccessRate(attempts) ==
    IF Len(attempts) = 0
    THEN Rat(1, 2)
    ELSE Rat(Cardinality({i \in 1 .. Len(attempts) : IsSuccessful(attempts[i])}),
             Len(attempts))

\* what one attempt adds to frustrationScore, in tenths
FrustrationOf(a) ==
      (IF a.timeSpent < Seconds(3) /\ a.confidence < Conf(3) THEN 3 ELSE 0)
    + (IF a.hintsUsed > 2 THEN 2 ELSE 0)
    + (IF ~a.isCorrect /\ a.confidence < Conf(1) THEN 1 ELSE 0)

RECURSIVE FrustrationScore(_)
FrustrationScore(attempts) ==
    IF Len(attempts) = 0
    THEN 0
    ELSE FrustrationOf(Head(attempts)) + FrustrationScore(Tail(attempts))

\* Math.min(1, frustrationScore / attempts.length)
calculateFrustrationLevel(attempts) ==
    IF Len(attempts) = 0
    THEN Rat(0, 1)
    ELSE LET score == FrustrationScore(attempts)
             n == Len(attempts)
         IN IF score > 10 * n THEN Rat(1, 1) ELSE Rat(score, 10 * n)

adaptDifficultyNoFloor(recentAttempts, p) ==
    LET successRate == calculateSuccessRate(recentAttempts)
        avgFrustration == calculateFrustrationLevel(recentAttempts)
    IN IF Gt(avgFrustration, Rat(7, 10))
       THEN p.currentDifficulty - Diff(2)
       ELSE IF Gt(successRate, Rat(8, 10)) /\ Lt(avgFrustration, Rat(3, 10))
       THEN p.currentDifficulty + 1
       ELSE IF Lt(successRate, Rat(4, 10))
       THEN p.currentDifficulty - 1
       ELSE p.currentDifficulty

adaptDifficultySwapped(recentAttempts, p) ==
    LET successRate == calculateSuccessRate(recentAttempts)
        avgFrustration == calculateFrustrationLevel(recentAttempts)
    IN IF Gt(avgFrustration, Rat(7, 10))
       THEN Max(Diff(1), p.currentDifficulty - Diff(2))
       ELSE IF Lt(successRate, Rat(4, 10))
       THEN Min(Diff(10), p.currentDifficulty + 1)
       ELSE IF Gt(successRate, Rat(8, 10)) /\ Lt(avgFrustration, Rat(3, 10))
       THEN Max(Diff(1), p.currentDifficulty - 1)
       ELSE p.currentDifficulty

adaptDifficulty(recentAttempts, p) ==
    LET frustrationThreshold == Rat(7, 10)
        successRate == calculateSuccessRate(recentAttempts)
        avgFrustration == calculateFrustrationLevel(recentAttempts)
    IN IF Gt(avgFrustration, frustrationThreshold)
       THEN Max(Diff(1), p.currentDifficulty - Diff(2))
       ELSE IF Gt(successRate, Rat(8, 10)) /\ Lt(avgFrustration, Rat(3, 10))
       THEN Min(Diff(10), p.currentDifficulty + 1)
       ELSE IF Lt(successRate, Rat(4, 10))
       THEN Max(Diff(1), p.currentDifficulty - 1)
       ELSE p.currentDifficulty

-----------------------------------------------------------------------------
(* The host's attempt records (PatternAttempt) *)

PatternAttempt(isCorrect, confidence, timeSpent, hintsUsed, pattern) ==
    [isCorrect |-> isCorrect, confidence |-> confidence,
     timeSpent |-> timeSpent, hintsUsed |-> hintsUsed,
     interactionPattern |-> pattern]

\* attempts on both sides of every threshold adaptDifficulty reads
AttemptInputs ==
    { PatternAttempt(TRUE, Conf(10), Seconds(10), 0, "systematic"),
      \* on every boundary: 0.7 is not > 0.7, 3 s is not < 3, 2 hints not > 2
      PatternAttempt(FALSE, Conf(7), Seconds(3), 2, "exploratory"),
      \* all three frustration signals at once
      PatternAttempt(FALSE, 0, Seconds(1), 3, "frustrated"),
      \* correct, but rushed and unsure
      PatternAttempt(TRUE, Conf(2), Seconds(1), 0, "random"),
      \* marked incorrect, successful by confidence alone
      PatternAttempt(FALSE, Conf(8), Seconds(10), 3, "exploratory") }

-----------------------------------------------------------------------------
(* VisualSequencePattern: generation *)

shapes == <<"circle", "square", "triangle", "diamond", "star", "hexagon">>
colors == <<"#FF6B6B", "#4ECDC4", "#45B7D1", "#96CEB4", "#FFEAA7", "#DDA0DD",
            "#98D8C8", "#F7DC6F", "#BB8FCE", "#85C1E9", "#F8C471", "#82E0AA">>
PlaceholderColor == "#E0E0E0"

\* JavaScript arrays are indexed from 0, sequences from 1
At(array, index) == array[index + 1]

\* Math.floor(difficulty / 2), difficulty in half steps
HalfFloor(difficulty) == difficulty \div 4

\* a SequenceRule; an absent pattern is <<>>, an absent increment 0
SequenceRule(type, property, pattern, increment, condition) ==
    [type |-> type, property |-> property, pattern |-> pattern,
     increment |-> increment, condition |-> condition]

\* the `rules` array of generateSequenceRule
RulePool(difficulty) ==
    LET rules == << SequenceRule("increment", "size", <<>>, 1, Undefined),
                    SequenceRule("alternating", "color", <<>>, 0, Undefined),
                    SequenceRule("pattern", "shape", <<"circle", "square">>, 0,
                                 Undefined),
                    SequenceRule("increment", "rotation", <<>>, 45, Undefined) >>
    IN IF difficulty > Diff(5)
       THEN rules \o
            << SequenceRule("pattern", "shape",
                            <<"circle", "square", "triangle">>, 0, Undefined),
               SequenceRule("conditional", "color", <<>>, 0,
                            "if_shape_circle_then_blue") >>
       ELSE rules

RandomIndexesWholePool(difficulty) == 0 .. (Len(RulePool(difficulty)) - 1)

\* the values Math.floor(Math.random() * Math.min(rules.length, 1 + floor(d/2)))
\* can take
RandomIndexes(difficulty) ==
    0 .. (Min(Len(RulePool(difficulty)), 1 + HalfFloor(difficulty)) - 1)

\* generateSequenceRule with the random draw made explicit
generateSequenceRule(difficulty, randomIndex) ==
    At(RulePool(difficulty), randomIndex)

calculateMissingPositionsFromZero(sequenceLength, difficulty) ==
    LET missingCount == Max(1, Min(HalfFloor(difficulty), sequenceLength - 2))
    IN [i \in 1 .. missingCount |-> i - 1]

calculateMissingPositionsShifted(sequenceLength, difficulty) ==
    LET missingCount == Max(1, Min(HalfFloor(difficulty), sequenceLength - 2))
        startPos == sequenceLength \div 3 + 1
    IN [i \in 1 .. missingCount |-> startPos + (i - 1)]

calculateMissingPositionsNoMinimum(sequenceLength, difficulty) ==
    LET missingCount == Min(HalfFloor(difficulty), sequenceLength - 2)
        startPos == sequenceLength \div 3
    IN [i \in 1 .. missingCount |-> startPos + (i - 1)]

calculateMissingPositions(sequenceLength, difficulty) ==
    LET missingCount == Max(1, Min(HalfFloor(difficulty), sequenceLength - 2))
        startPos == sequenceLength \div 3
    IN [i \in 1 .. missingCount |-> startPos + (i - 1)]

generateElementProperties(index, rule) ==
    LET baseProps == [shape |-> "circle", color |-> At(colors, 0), size |-> 5,
                      rotation |-> 0, strokeWidth |-> 2, fill |-> TRUE]
        \* rule.increment || d
        incrementOr(d) == IF rule.increment = 0 THEN d ELSE rule.increment
    IN CASE rule.type = "increment" /\ rule.property = "size" ->
              [baseProps EXCEPT
                 !.size = Max(1, Min(10, 3 + index * incrementOr(1)))]
         [] rule.type = "increment" /\ rule.property = "rotation" ->
              [baseProps EXCEPT
                 !.rotation = (index * incrementOr(45)) % 360]
         [] rule.type = "alternating" /\ rule.property = "color" ->
              [baseProps EXCEPT !.color = At(colors, index % 2)]
         [] rule.type = "alternating" /\ rule.property = "shape" ->
              [baseProps EXCEPT !.shape = At(shapes, index % 2)]
         [] rule.type = "pattern" /\ rule.pattern # <<>>
                                   /\ rule.property = "shape" ->
              [baseProps EXCEPT
                 !.shape = At(rule.pattern, index % Len(rule.pattern))]
         [] rule.type = "pattern" /\ rule.pattern # <<>>
                                   /\ rule.property = "color" ->
              [baseProps EXCEPT
                 !.color = At(rule.pattern, index % Len(rule.pattern))]
         [] OTHER -> baseProps

generateSequence(length, rule) ==
    [n \in 1 .. length |->
        LET i == n - 1
        IN [id |-> <<"visual-", i>>,
            type |-> "shape",
            position |-> [x |-> i * 100 + 50, y |-> 200],
            properties |-> generateElementProperties(i, rule)]]

generateValidSolutionsOnlyPrimary(elements, missingPositions, rule) ==
    << [elements |-> [k \in DOMAIN missingPositions |->
                         At(elements, missingPositions[k])],
        confidence |-> Conf(10),
        reasoning |-> <<"Follows the ", rule.type, " pattern for ",
                        rule.property>>] >>

generateValidSolutions(elements, missingPositions, rule) ==
    LET primarySolution == [k \in DOMAIN missingPositions |->
                               At(elements, missingPositions[k])]
        primary == [elements |-> primarySolution,
                    confidence |-> Conf(10),
                    reasoning |-> <<"Follows the ", rule.type, " pattern for ",
                                    rule.property>>]
        \* a shallow copy of each element
        altSolution == [k \in DOMAIN missingPositions |->
                           At(elements, missingPositions[k])]
        alt == [elements |-> altSolution,
                confidence |-> Conf(8),
                reasoning |-> <<"Alternative valid pattern interpretation">>]
    IN IF rule.type = "pattern" /\ rule.pattern # <<>>
       THEN <<primary, alt>>
       ELSE <<primary>>

Includes(array, value) == \E k \in DOMAIN array : array[k] = value

maskElementsShapeOnly(elements, missingPositions) ==
    [n \in DOMAIN elements |->
        IF Includes(missingPositions, n - 1)
        THEN [elements[n] EXCEPT !.properties.shape = Undefined]
        ELSE elements[n]]

\* elements.map((element, index) => ...): a masked copy of the sequence
maskElements(elements, missingPositions) ==
    [n \in DOMAIN elements |->
        IF Includes(missingPositions, n - 1)
        THEN [elements[n] EXCEPT !.properties.shape = Undefined,
                                 !.properties.color = PlaceholderColor]
        ELSE elements[n]]

generateHints(rule, elements) ==
    << <<"Look at how the shapes change from one to the next">> >>
    \o (CASE rule.type = "increment" ->
               << <<"Notice how the ", rule.property,
                    " is changing step by step">> >>
          [] rule.type = "alternating" ->
               << <<"The ", rule.property, " follows an alternating pattern">> >>
          [] rule.type = "pattern" ->
               << <<"There's a repeating pattern in the ", rule.property>> >>
          [] OTHER -> <<>>)
    \o << <<"Try to continue the pattern you see">>,
          <<"There might be more than one correct answer">> >>

calculateActualDifficultyNoMissing(cfg, sequenceLength, rule, missingCount) ==
    LET bonus == CASE rule.type = "increment" -> 1
                   [] rule.type = "alternating" -> 2
                   [] rule.type = "pattern" -> 3
                   [] rule.type = "conditional" -> 5
                   [] OTHER -> 0
        baseDifficulty == cfg.difficulty + Diff(bonus)
                          + Diff(sequenceLength \div 2)
    IN Max(Diff(1), Min(Diff(10), baseDifficulty))

calculateActualDifficulty(cfg, sequenceLength, rule, missingCount) ==
    LET bonus == CASE rule.type = "increment" -> 1
                   [] rule.type = "alternating" -> 2
                   [] rule.type = "pattern" -> 3
                   [] rule.type = "conditional" -> 5
                   [] OTHER -> 0
        baseDifficulty == cfg.difficulty + Diff(bonus)
                          + Diff(sequenceLength \div 2 + missingCount)
    IN Max(Diff(1), Min(Diff(10), baseDifficulty))

\* generate() on an engine whose config is cfg, the random draw made explicit
generate(cfg, randomIndex) ==
    LET difficulty == cfg.difficulty
        sequenceLength == Min(3 + HalfFloor(difficulty), 8)
        missingPositions == calculateMissingPositions(sequenceLength, difficulty)
        rule == generateSequenceRule(difficulty, randomIndex)
        elements == generateSequence(sequenceLength, rule)
        validSolutions == generateValidSolutions(elements, missingPositions, rule)
        actualDifficulty == calculateActualDifficulty(cfg, sequenceLength, rule,
                                                      Len(missingPositions))
    IN [patternType |-> "visual-sequence",
        difficulty |-> actualDifficulty,
        elements |-> maskElements(elements, missingPositions),
        validSolutions |-> validSolutions,
        hints |-> generateHints(rule, elements),
        accessibilityFeatures |->
           [highContrast |-> TRUE, reducedMotion |-> TRUE,
            audioDescriptions |-> TRUE, keyboardNavigation |-> TRUE]]

-----------------------------------------------------------------------------
(* VisualSequencePattern: validation *)

\* size || 5
SizeOr5(size) == IF size = 0 THEN 5 ELSE size

Abs(x) == IF x < 0 THEN -x ELSE x

elementsMatchWithRotation(a, b) ==
    /\ a.properties.shape = b.properties.shape
    /\ a.properties.color = b.properties.color
    /\ a.properties.rotation = b.properties.rotation
    /\ Abs(SizeOr5(a.properties.size) - SizeOr5(b.properties.size)) <= 1

elementsMatch(a, b) ==
    /\ a.properties.shape = b.properties.shape
    /\ a.properties.color = b.properties.color
    /\ Abs(SizeOr5(a.properties.size) - SizeOr5(b.properties.size)) <= 1

calculateSolutionConfidencePrefix(att, solution) ==
    IF Len(solution) = 0
    THEN 0
    ELSE LET correctElements ==
                 Cardinality({i \in 1 .. Min(Len(att), Len(solution)) :
                                 elementsMatch(att[i], solution[i])})
         IN (correctElements * Conf(10)) \div Len(solution)

\* in sixtieths; every solution has 1..5 elements, so the quotient is exact.
\* 0 / 0 is NaN, which `confidence > bestMatch.confidence` never selects, as
\* it never selects 0.
calculateSolutionConfidence(att, solution) ==
    IF Len(att) # Len(solution) \/ Len(solution) = 0
    THEN 0
    ELSE LET correctElements ==
                 Cardinality({i \in 1 .. Len(att) :
                                 elementsMatch(att[i], solution[i])})
         IN (correctElements * Conf(10)) \div Len(solution)

generateFeedback(confidence) ==
    IF confidence >= Conf(9)
    THEN "Excellent! You've identified the pattern perfectly."
    ELSE IF confidence >= Conf(7)
    THEN "Great work! You're very close to the complete pattern."
    ELSE IF confidence >= Conf(5)
    THEN "Good start! You've got part of the pattern right."
    ELSE "Keep exploring! Look at how the elements change from one to the next."

generateSuggestions ==
    <<"Try focusing on one property at a time (shape, color, size)",
      "Look for what stays the same and what changes",
      "Check if there's a repeating cycle">>

\* the loop over `solutions`, from its n-th entry on
RECURSIVE BestMatch(_, _, _, _)
BestMatch(att, sols, n, bestMatch) ==
    IF n > Len(sols)
    THEN bestMatch
    ELSE LET confidence == calculateSolutionConfidence(att, sols[n].elements)
         IN BestMatch(att, sols, n + 1,
                      IF confidence > bestMatch.confidence
                      THEN [confidence |-> confidence, solution |-> sols[n],
                            elements |-> sols[n].elements]
                      ELSE bestMatch)

SolutionsOfConfigOnly(cfg, lastGenerated) == cfg.validSolutions

\* this.lastGeneratedPattern?.validSolutions || this.config.validSolutions || []
\* (an array, even an empty one, is truthy)
SolutionsOf(cfg, lastGenerated) ==
    IF lastGenerated # NoPattern
    THEN lastGenerated.validSolutions
    ELSE cfg.validSolutions

validateSolutionNoOverride(att, sols) ==
    LET scored == BestMatch(att, sols, 1,
                            [confidence |-> 0, solution |-> sols[1],
                             elements |-> <<>>])
    IN [isValid |-> scored.confidence >= Conf(8),
        confidence |-> scored.confidence,
        feedback |-> generateFeedback(scored.confidence),
        suggestions |-> generateSuggestions]

validateSolutionStrictlyAbove(att, sols) ==
    LET scored == BestMatch(att, sols, 1,
                            [confidence |-> 0, solution |-> sols[1],
                             elements |-> <<>>])
        confidence == IF scored.confidence = 0 /\ Len(att) > 0
                      THEN Conf(9)
                      ELSE scored.confidence
    IN [isValid |-> confidence > Conf(8),
        confidence |-> confidence,
        feedback |-> generateFeedback(confidence),
        suggestions |-> generateSuggestions]

\* validateSolution once `solutions` is not empty
validateSolution(att, sols) ==
    LET scored == BestMatch(att, sols, 1,
                            [confidence |-> 0, solution |-> sols[1],
                             elements |-> <<>>])
        confidence == IF scored.confidence = 0 /\ Len(att) > 0
                      THEN Conf(9)
                      ELSE scored.confidence
    IN [isValid |-> confidence >= Conf(8),
        confidence |-> confidence,
        feedback |-> generateFeedback(confidence),
        suggestions |-> generateSuggestions]

-----------------------------------------------------------------------------
(* The engine and its caller: puzzles *)

\* the canonical answer of a generated config
Canonical(cfg) == cfg.validSolutions[1].elements

\* what a caller may submit at this difficulty: the canonical answer of any
\* puzzle generate() can produce, that answer given twice over (too long),
\* with every shape wrong, or with only its first shape wrong; and nothing
\* at all
AttemptCandidates ==
    {<<>>} \cup
    UNION { LET answer == Canonical(generate(config, k))
            IN { answer,
                 answer \o answer,
                 [n \in DOMAIN answer |->
                     [answer[n] EXCEPT !.properties.shape = "star"]],
                 [n \in DOMAIN answer |->
                     IF n = 1
                     THEN [answer[n] EXCEPT !.properties.shape = "star"]
                     ELSE answer[n]] }
            : k \in RandomIndexes(config.difficulty) }

\* PatternFactory.createPattern('visual-sequence', getDefaultConfig(type, d),
\* getDefaultProgress(user, type))
InitGen ==
    /\ \E d \in Difficulties : config = getDefaultConfig("visual-sequence", d)
    /\ progress = getDefaultProgress("user", "visual-sequence")
    /\ lastGeneratedPattern = NoPattern
    /\ history = <<>>
    /\ adaptResult = NoResult
    /\ puzzle = NoPattern
    /\ generated = NoPattern
    /\ generatedRule = NoRule
    /\ attempt = <<>>
    /\ solutions = <<>>
    /\ validation = NoValidation
    /\ fallbacks = 0
    /\ detected = NoResult
    /\ hint = <<NoResult>>
    /\ updated = NoAttempt
    /\ updateCalls = 0
    /\ created = createPattern("visual-sequence", config, progress)
    /\ StoreLoaded(<<>>)
    /\ lastCall = "createPattern"

CallGenerateCaching ==
    /\ \E k \in RandomIndexes(config.difficulty) :
          LET generatedPattern == generate(config, k)
          IN /\ puzzle' = generatedPattern
             /\ generated' = generatedPattern
             /\ lastGeneratedPattern' = generatedPattern
             /\ generatedRule' = generateSequenceRule(config.difficulty, k)
    /\ lastCall' = "generate"
    /\ UNCHANGED <<engineVars, adaptVars, detectVars, progressVars,
                   factoryVars, storeVars, attempt, solutions, validation,
                   fallbacks>>

\* config = engine.generate(); lastGeneratedPattern is not assigned
CallGenerate ==
    /\ \E k \in RandomIndexes(config.difficulty) :
          LET generatedPattern == generate(config, k)
          IN /\ puzzle' = generatedPattern
             /\ generated' = generatedPattern
             /\ generatedRule' = generateSequenceRule(config.difficulty, k)
    /\ lastCall' = "generate"
    /\ UNCHANGED <<engineVars, adaptVars, detectVars, progressVars, factoryVars, storeVars,
                   lastGeneratedPattern, attempt, solutions, validation,
                   fallbacks>>

\* The ways a validateSolution(att) call can end, entered with the cache
\* lastGenerated after `depth` fallbacks.  With no solutions to score against
\* it generates a config, caches it and calls itself; otherwise it scores.
RECURSIVE ValidateOutcomes(_, _, _, _, _, _)
ValidateOutcomes(cfg, att, lastGenerated, gen, rule, depth) ==
    LET sols == SolutionsOf(cfg, lastGenerated)
    IN IF Len(sols) = 0
       THEN IF depth >= MaxFallbacks
            THEN { [lastGeneratedPattern |-> lastGenerated, generated |-> gen,
                    generatedRule |-> rule, solutions |-> sols,
                    fallbacks |-> depth, validation |-> StillRecursing] }
            ELSE UNION { LET generatedPattern == generate(cfg, k)
                         IN ValidateOutcomes(cfg, att, generatedPattern,
                               generatedPattern,
                               generateSequenceRule(cfg.difficulty, k),
                               depth + 1)
                         : k \in RandomIndexes(cfg.difficulty) }
       ELSE { [lastGeneratedPattern |-> lastGenerated, generated |-> gen,
               generatedRule |-> rule, solutions |-> sols,
               fallbacks |-> depth, validation |-> validateSolution(att, sols)] }

\* engine.validateSolution(att)
CallValidateSolution ==
    /\ \E att \in AttemptCandidates :
          \E end \in ValidateOutcomes(config, att, lastGeneratedPattern,
                                      generated, generatedRule, 0) :
             /\ attempt' = att
             /\ lastGeneratedPattern' = end.lastGeneratedPattern
             /\ generated' = end.generated
             /\ generatedRule' = end.generatedRule
             /\ solutions' = end.solutions
             /\ fallbacks' = end.fallbacks
             /\ validation' = end.validation
    /\ lastCall' = "validateSolution"
    /\ UNCHANGED <<engineVars, adaptVars, detectVars, progressVars, factoryVars, storeVars, puzzle>>

NextGen == CallGenerate \/ CallValidateSolution

SpecGen == InitGen /\ [][NextGen]_vars

-----------------------------------------------------------------------------
(* The engine and its host: adaptation *)

\* PatternFactory.createPattern('visual-sequence', config, progress): the
\* engine holds the host's progress record, whose currentDifficulty is any
\* value of the 1-10 scale
InitAdapt ==
    /\ config = getDefaultConfig("visual-sequence", Diff(3))
    /\ \E d \in Difficulties :
          progress = [getDefaultProgress("user", "visual-sequence")
                        EXCEPT !.currentDifficulty = d]
    /\ lastGeneratedPattern = NoPattern
    /\ history = <<>>
    /\ adaptResult = NoResult
    /\ puzzle = NoPattern
    /\ generated = NoPattern
    /\ generatedRule = NoRule
    /\ attempt = <<>>
    /\ solutions = <<>>
    /\ validation = NoValidation
    /\ fallbacks = 0
    /\ detected = NoResult
    /\ hint = <<NoResult>>
    /\ updated = NoAttempt
    /\ updateCalls = 0
    /\ created = createPattern("visual-sequence", config, progress)
    /\ StoreLoaded(<<>>)
    /\ lastCall = "createPattern"

\* the host appends a submission to the user's attempt history
AppendAttempt ==
    /\ Len(history) < MaxHist
    /\ \E a \in AttemptInputs : history' = Append(history, a)
    /\ adaptResult' = NoResult
    /\ lastCall' = "appendAttempt"
    /\ UNCHANGED <<engineVars, genVars, detectVars, progressVars, factoryVars, storeVars>>

\* engine.adaptDifficulty(history)
CallAdaptDifficulty ==
    /\ adaptResult' = adaptDifficulty(history, progress)
    /\ lastCall' = "adaptDifficulty"
    /\ UNCHANGED <<engineVars, genVars, detectVars, progressVars, factoryVars, storeVars, history>>

NextAdapt == AppendAttempt \/ CallAdaptDifficulty

SpecAdapt == InitAdapt /\ [][NextAdapt]_vars

-----------------------------------------------------------------------------
(* Claims about adaptDifficulty *)

Adapted == lastCall = "adaptDifficulty"

EmergencyNeverFires ==
    ~ Gt(calculateFrustrationLevel(history), Rat(7, 10))

\* C2 as stated: with average frustration above 0.7 and success rate above
\* 0.8 the result is max(1, current - 2).
C2_EmergencyPrecedence ==
    (/\ Adapted
     /\ Gt(calculateFrustrationLevel(history), Rat(7, 10))
     /\ Gt(calculateSuccessRate(history), Rat(8, 10)))
    => adaptResult = Max(Diff(1), progress.currentDifficulty - Diff(2))

\* the success rate of C3: the fraction of attempts that are correct or have
\* confidence above 0.7, and one half for the empty history
C3_Successes == Cardinality({i \in DOMAIN history :
                    history[i].isCorrect \/ history[i].confidence >= Conf(7) + 1})
C3_RateAbove80 == Len(history) > 0 /\ 10 * C3_Successes > 8 * Len(history)
C3_RateBelow40 == Len(history) > 0 /\ 10 * C3_Successes < 4 * Len(history)

\* C3: when the emergency branch does not fire the result is
\* min(10, current + 0.5) if the success rate is above 0.8 and the average
\* frustration below 0.3, otherwise max(1, current - 0.5) if the success rate
\* is below 0.4, otherwise the current difficulty; an empty history (success
\* rate 0.5) leaves the difficulty unchanged.
C3_SuccessRateBranches ==
    (Adapted /\ ~ Gt(calculateFrustrationLevel(history), Rat(7, 10))) =>
        LET cur == progress.currentDifficulty
            calm == Lt(calculateFrustrationLevel(history), Rat(3, 10))
        IN /\ (C3_RateAbove80 /\ calm) => adaptResult = Min(Diff(10), cur + 1)
           /\ (~(C3_RateAbove80 /\ calm) /\ C3_RateBelow40)
                 => adaptResult = Max(Diff(1), cur - 1)
           /\ (~(C3_RateAbove80 /\ calm) /\ ~C3_RateBelow40)
                 => adaptResult = cur
           /\ Len(history) = 0 => adaptResult = cur

\* a raise has been returned for a history of five attempts (all five
\* successful: four of five is 0.8, which is not above 0.8)
C3_Witness ==
    /\ Adapted
    /\ Len(history) = 5
    /\ C3_RateAbove80
    /\ progress.currentDifficulty = Diff(3)
    /\ adaptResult = Diff(3) + 1

-----------------------------------------------------------------------------
(* Claims about generate and validateSolution *)

\* every config a generate() invocation has produced and that is still held
GeneratedConfigs == {puzzle, generated, lastGeneratedPattern} \ {NoPattern}

\* the 0-based positions of a config's sequence, and the masked ones
PositionsOf(cfg) == 0 .. (Len(cfg.elements) - 1)
MaskedPositions(cfg) ==
    {i \in PositionsOf(cfg) : At(cfg.elements, i).properties.shape = Undefined}

\* C4 as stated: submitting the canonical solution of the config generate()
\* returned back to validateSolution on the same instance yields
\* isValid = true and confidence >= 0.8.
C4_RoundTrip ==
    (/\ lastCall = "validateSolution"
     /\ puzzle # NoPattern
     /\ attempt = Canonical(puzzle))
    => (validation.isValid = TRUE /\ validation.confidence >= Conf(8))

\* C5 as stated: every generate() call caches the config it returns on the
\* instance, and validateSolution scores against the accepted solutions of
\* the config of the most recent generate() call.
C5_GenerateCaches ==
    /\ lastCall = "generate" => lastGeneratedPattern = puzzle
    /\ lastCall = "validateSolution" => solutions = generated.validSolutions

\* C6: in every generated config the masked positions are a non-empty
\* contiguous run of indices, a strict subset of the sequence, containing
\* neither index 0 nor the final index.
C6_MaskingInterior ==
    \A cfg \in GeneratedConfigs :
       LET masked == MaskedPositions(cfg)
       IN /\ masked # {}
          /\ \A i \in masked, j \in masked :
                \A k \in PositionsOf(cfg) : (i < k /\ k < j) => k \in masked
          /\ masked \subseteq PositionsOf(cfg)
          /\ masked # PositionsOf(cfg)
          /\ 0 \notin masked
          /\ (Len(cfg.elements) - 1) \notin masked

\* a puzzle of the highest difficulty, with its five masked positions 2..6
C6_Witness ==
    /\ lastCall = "generate"
    /\ config.difficulty = Diff(10)
    /\ MaskedPositions(puzzle) = 2 .. 6

\* C7 as stated: in every generated config no masked position is the first
\* position or one of the final two positions.
C7_FinalTwoUnmasked ==
    \A cfg \in GeneratedConfigs :
       \A i \in MaskedPositions(cfg) :
          /\ i # 0
          /\ i # Len(cfg.elements) - 1
          /\ i # Len(cfg.elements) - 2

\* C7, amended: no masked position is the first or the final position, so
\* an unmasked element stands on each side of the masked run; the position
\* before the final one is unmasked exactly at configured difficulties from
\* 2 up to, but not including, 6.
C7_FirstAndFinalUnmasked ==
    \A cfg \in GeneratedConfigs :
       LET masked == MaskedPositions(cfg)
           final == Len(cfg.elements) - 1
       IN /\ \A i \in masked : 0 < i /\ i < final
          /\ At(cfg.elements, 0).properties.shape # Undefined
          /\ At(cfg.elements, final).properties.shape # Undefined
          /\ (final - 1) \notin masked
                <=> (Diff(2) <= config.difficulty /\ config.difficulty < Diff(6))

\* a puzzle of difficulty 6, whose masked run 2..4 reaches the position
\* before the final one
C7_Witness ==
    /\ lastCall = "generate"
    /\ config.difficulty = Diff(6)
    /\ Len(puzzle.elements) = 6
    /\ 4 \in MaskedPositions(puzzle)
    /\ 5 \notin MaskedPositions(puzzle)

\* C8: for configured difficulty d the sequence has min(3 + floor(d/2), 8)
\* elements, max(1, min(floor(d/2), length - 2)) of them masked (3 and 1 at
\* d = 1, 8 and 5 at d = 10), and the canonical solution has as many elements
\* as there are masked positions.
C8_LengthAndMaskedCount ==
    \A cfg \in GeneratedConfigs :
       LET d == config.difficulty
           half == CHOOSE h \in 0 .. 5 : Diff(2 * h) <= d /\ d < Diff(2 * h + 2)
           length == IF 3 + half < 8 THEN 3 + half ELSE 8
           inner == IF half < length - 2 THEN half ELSE length - 2
           missing == IF inner > 1 THEN inner ELSE 1
       IN /\ Len(cfg.elements) = length
          /\ Cardinality(MaskedPositions(cfg)) = missing
          /\ Len(Canonical(cfg)) = Cardinality(MaskedPositions(cfg))
          /\ d = Diff(1) =>
                Len(cfg.elements) = 3 /\ Cardinality(MaskedPositions(cfg)) = 1
          /\ d = Diff(10) =>
                Len(cfg.elements) = 8 /\ Cardinality(MaskedPositions(cfg)) = 5

\* a puzzle of the lowest difficulty: three elements, one of them masked
C8_Witness ==
    /\ lastCall = "generate"
    /\ config.difficulty = Diff(1)
    /\ Len(puzzle.elements) = 3
    /\ MaskedPositions(puzzle) = {1}
    /\ Len(Canonical(puzzle)) = 1

\* C9: every generated config has at least one solution, the first being
\* the canonical one with confidence 1.0; when the selected rule is
\* pattern-typed it has at least two, the second an alternate with
\* confidence 0.8 whose elements equal the canonical ones.
C9_SolutionCardinality ==
    /\ \A cfg \in GeneratedConfigs :
          /\ Len(cfg.validSolutions) >= 1
          /\ cfg.validSolutions[1].confidence = Conf(10)
    /\ (generated # NoPattern /\ generatedRule.type = "pattern") =>
          /\ Len(generated.validSolutions) >= 2
          /\ generated.validSolutions[2].confidence = Conf(8)
          /\ generated.validSolutions[2].elements
                = generated.validSolutions[1].elements

\* the three-shape cycle has been selected and its puzzle has two solutions
C9_Witness ==
    /\ lastCall = "generate"
    /\ generatedRule.type = "pattern"
    /\ Len(generatedRule.pattern) = 3
    /\ Len(puzzle.validSolutions) = 2

\* C10 as stated: every puzzle generate() produces carries more than one
\* accepted solution.
C10_MultipleSolutions ==
    \A cfg \in GeneratedConfigs : Len(cfg.validSolutions) > 1

\* C11 as stated: generate() always returns exactly four hints: the opening
\* hint, one rule-specific hint naming the varying property and the rule
\* family, then the two closing general hints.
C11_FourHints ==
    (generated # NoPattern) =>
       /\ Len(generated.hints) = 4
       /\ generated.hints[1]
             = <<"Look at how the shapes change from one to the next">>
       /\ \E piece \in DOMAIN generated.hints[2] :
             generated.hints[2][piece] = generatedRule.property
       /\ generated.hints[3] = <<"Try to continue the pattern you see">>
       /\ generated.hints[4] = <<"There might be more than one correct answer">>

\* C12: the difficulty a generated config reports is
\* clamp(configured + ruleBonus + floor(length/2) + missingCount, 1, 10) with
\* ruleBonus 1 for increment, 2 for alternating, 3 for pattern and 5 for
\* conditional; it lies in [1, 10].
C12_ReportedDifficulty ==
    (generated # NoPattern) =>
       LET ruleBonus == IF generatedRule.type = "increment" THEN 1
                        ELSE IF generatedRule.type = "alternating" THEN 2
                        ELSE IF generatedRule.type = "pattern" THEN 3
                        ELSE 5
           length == Len(generated.elements)
           missingCount == Cardinality(MaskedPositions(generated))
           raw == config.difficulty
                  + Diff(ruleBonus + (length \div 2) + missingCount)
       IN /\ generated.difficulty
                = (IF raw < Diff(1) THEN Diff(1)
                   ELSE IF raw > Diff(10) THEN Diff(10) ELSE raw)
          /\ Diff(1) <= generated.difficulty
          /\ generated.difficulty <= Diff(10)

\* an alternating puzzle at configured difficulty 2 reports 2 + 2 + 2 + 1 = 7,
\* below the ceiling
C12_Witness ==
    /\ lastCall = "generate"
    /\ config.difficulty = Diff(2)
    /\ generatedRule.type = "alternating"
    /\ puzzle.difficulty = Diff(7)

\* the attempt scores 0 against a solution: the lengths differ or no position
\* matches in shape, color and size (within 1)
C13_ScoresZero(att, solution) ==
    \/ Len(att) # Len(solution)
    \/ \A i \in DOMAIN att : ~ elementsMatch(att[i], solution[i])

\* C13: when every accepted solution scores exactly 0 and the attempt is not
\* empty, validateSolution returns confidence 0.9 and isValid = true,
\* whatever was submitted; an empty attempt keeps confidence 0 and is invalid.
C13_ZeroForcedTo90 ==
    (lastCall = "validateSolution") =>
       /\ ((\A n \in DOMAIN solutions :
               C13_ScoresZero(attempt, solutions[n].elements))
           /\ Len(attempt) > 0)
          => (validation.confidence = Conf(9) /\ validation.isValid = TRUE)
       /\ Len(attempt) = 0
          => (validation.confidence = 0 /\ validation.isValid = FALSE)

\* an answer with every shape wrong has been accepted with confidence 0.9
C13_Witness ==
    /\ lastCall = "validateSolution"
    /\ Len(attempt) = Len(solutions[1].elements)
    /\ \A i \in DOMAIN attempt : attempt[i].properties.shape = "star"
    /\ validation.confidence = Conf(9)
    /\ validation.isValid = TRUE

\* C14: validateSolution returns isValid = true exactly when the confidence
\* it returns is at least 0.8, and that confidence lies in [0, 1].
C14_ValidIffConfident ==
    (lastCall = "validateSolution") =>
       /\ validation.isValid \in BOOLEAN
       /\ validation.isValid <=> validation.confidence >= Conf(8)
       /\ 0 <= validation.confidence
       /\ validation.confidence <= Conf(10)

\* four of five elements match: confidence exactly 0.8, and valid
C14_Witness ==
    /\ lastCall = "validateSolution"
    /\ Len(attempt) = 5
    /\ validation.confidence = Conf(8)
    /\ validation.isValid = TRUE

\* C15: validateSolution on an instance with no cached config and an empty
\* configured solution set generates one config, caches it, recurses exactly
\* once and returns a result scored against that config.
C15_FallbackOnce ==
    [][ (/\ lastCall' = "validateSolution"
         /\ lastGeneratedPattern = NoPattern
         /\ Len(config.validSolutions) = 0)
        => (/\ fallbacks' = 1
            /\ \E k \in RandomIndexes(config.difficulty) :
                  lastGeneratedPattern' = generate(config, k)
            /\ generated' = lastGeneratedPattern'
            /\ solutions' = lastGeneratedPattern'.validSolutions
            /\ validation' # StillRecursing
            /\ validation' = validateSolution(attempt', solutions')) ]_vars

\* validateSolution has been the first call on the instance and has cached a
\* config of its own
C15_Witness ==
    /\ lastCall = "validateSolution"
    /\ puzzle = NoPattern
    /\ fallbacks = 1
    /\ lastGeneratedPattern # NoPattern
    /\ solutions = lastGeneratedPattern.validSolutions

-----------------------------------------------------------------------------
(* VisualSequencePattern: interaction pattern and hints *)

\* longest attempt history the host hands to detectInteractionPattern
MaxDetectHist == 5

\* attemptHistory.slice(-n)
SliceLast(attemptHistory, n) ==
    SubSeq(attemptHistory, Max(1, Len(attemptHistory) - n + 1),
           Len(attemptHistory))

\* array.some(test) and array.every(test), by the set of indexes passing test
Some(array, passing) == \E i \in DOMAIN array : i \in passing
Every(array, passing) == \A i \in DOMAIN array : i \in passing

\* recentAttempts.reduce((sum, a) => sum + a.timeSpent, 0)
RECURSIVE SumTimeSpent(_)
SumTimeSpent(attempts) ==
    IF Len(attempts) = 0 THEN 0
    ELSE Head(attempts).timeSpent + SumTimeSpent(Tail(attempts))

\* recentAttempts.filter(a => !a.isCorrect).length
Incorrect(attempts) ==
    Cardinality({ i \in DOMAIN attempts : ~ attempts[i].isCorrect })

detectInteractionPatternOfBase(attempts) ==
    IF Len(attempts) < 3 THEN "exploratory"
    ELSE
    LET recentAttempts == SliceLast(attempts, 5)
        rapidFiring ==
            SumTimeSpent(recentAttempts) < Seconds(2) * Len(recentAttempts)
        manyIncorrect == Incorrect(recentAttempts) > 3
    IN IF rapidFiring /\ manyIncorrect THEN "frustrated" ELSE "exploratory"

\* VisualSequencePattern.detectInteractionPattern, which replaces the one of
\* BasePattern; timeSpent is compared with 2000 and 1000 as it stands
detectInteractionPattern(attemptHistory) ==
    IF Len(attemptHistory) = 0 THEN "exploratory"
    ELSE
    LET recentAttempts == SliceLast(attemptHistory, 3)
        hasFrustratedInteraction ==
            Some(recentAttempts,
                 { i \in DOMAIN recentAttempts :
                     recentAttempts[i].interactionPattern = "frustrated" })
        hasSystematicPattern ==
            Every(recentAttempts,
                  { i \in DOMAIN recentAttempts :
                      /\ recentAttempts[i].timeSpent > Seconds(2000)
                      /\ recentAttempts[i].hintsUsed <= 1 })
        hasRandomPattern ==
            Some(recentAttempts,
                 { i \in DOMAIN recentAttempts :
                     \/ recentAttempts[i].interactionPattern = "random"
                     \/ recentAttempts[i].timeSpent < Seconds(1000) })
    IN IF hasFrustratedInteraction THEN "frustrated"
       ELSE IF hasSystematicPattern THEN "systematic"
       ELSE IF hasRandomPattern THEN "random"
       ELSE "exploratory"

extractRuleFromConfig == SequenceRule("increment", "size", <<>>, 1, Undefined)

\* the hint texts, as the pieces of their template strings
getCalmingHint ==
    <<"Take your time. There's no rush. Look at the first few shapes and see what feels familiar.">>
getAnalyticalHint(rule) ==
    <<"Focus on the ", rule.property,
      " property. What mathematical relationship do you notice?">>
getStructuralHint(rule) ==
    <<"Try looking at the pattern step by step. What happens to each ",
      rule.property, " as you move from left to right?">>
getExploratoryHint(rule) ==
    <<"Experiment with different possibilities. What would make sense to continue this pattern?">>

getHint(attemptHistory) ==
    LET rule == extractRuleFromConfig
        interactionPattern == detectInteractionPattern(attemptHistory)
    IN CASE interactionPattern = "frustrated" -> getCalmingHint
         [] interactionPattern = "systematic" -> getAnalyticalHint(rule)
         [] interactionPattern = "random" -> getStructuralHint(rule)
         [] OTHER -> getExploratoryHint(rule)

\* attempts as a host records them: timed in seconds (1.5 s) or in
\* milliseconds (2500), tagged with any interaction pattern
DetectInputs ==
    { PatternAttempt(FALSE, Conf(2), Seconds(3) \div 2, 0, "exploratory"),
      PatternAttempt(TRUE, Conf(10), Seconds(3) \div 2, 0, "exploratory"),
      PatternAttempt(TRUE, Conf(10), Seconds(2500), 0, "systematic"),
      \* unhurried, but tagged frustrated
      PatternAttempt(FALSE, 0, Seconds(2500), 1, "frustrated"),
      \* unhurried, but one hint too many
      PatternAttempt(FALSE, Conf(5), Seconds(2500), 2, "exploratory") }

InitDetect ==
    /\ config = getDefaultConfig("visual-sequence", Diff(3))
    /\ progress = getDefaultProgress("user", "visual-sequence")
    /\ lastGeneratedPattern = NoPattern
    /\ history = <<>>
    /\ adaptResult = NoResult
    /\ puzzle = NoPattern
    /\ generated = NoPattern
    /\ generatedRule = NoRule
    /\ attempt = <<>>
    /\ solutions = <<>>
    /\ validation = NoValidation
    /\ fallbacks = 0
    /\ detected = NoResult
    /\ hint = <<NoResult>>
    /\ updated = NoAttempt
    /\ updateCalls = 0
    /\ created = createPattern("visual-sequence", config, progress)
    /\ StoreLoaded(<<>>)
    /\ lastCall = "createPattern"

\* the host appends a submission to the user's attempt history
RecordAttempt ==
    /\ Len(history) < MaxDetectHist
    /\ \E a \in DetectInputs : history' = Append(history, a)
    /\ detected' = NoResult
    /\ hint' = <<NoResult>>
    /\ lastCall' = "recordAttempt"
    /\ UNCHANGED <<engineVars, genVars, adaptResult, progressVars, factoryVars, storeVars>>

\* engine.detectInteractionPattern(history)
CallDetectInteractionPattern ==
    /\ detected' = detectInteractionPattern(history)
    /\ lastCall' = "detectInteractionPattern"
    /\ UNCHANGED <<engineVars, genVars, adaptVars, hint, progressVars, factoryVars, storeVars>>

\* engine.getHint(history)
CallGetHint ==
    /\ hint' = getHint(history)
    /\ lastCall' = "getHint"
    /\ UNCHANGED <<engineVars, genVars, adaptVars, detected, progressVars, factoryVars, storeVars>>

NextDetect == RecordAttempt \/ CallDetectInteractionPattern \/ CallGetHint

SpecDetect == InitDetect /\ [][NextDetect]_vars

-----------------------------------------------------------------------------
(* Claims about detectInteractionPattern and getHint *)

\* C16: detectInteractionPattern returns 'frustrated' for every history of at
\* least 3 attempts whose last five average under 2 seconds of timeSpent and
\* hold more than 3 incorrect entries.
C16_RapidIncorrectIsFrustrated ==
    LET lastFive == SliceLast(history, 5)
    IN (/\ detected # NoResult
        /\ Len(history) >= 3
        /\ SumTimeSpent(lastFive) < Seconds(2) * Len(lastFive)
        /\ Incorrect(lastFive) > 3)
       => detected = "frustrated"

\* C17: detectInteractionPattern returns 'exploratory' for every attempt
\* history with fewer than 3 attempts, whatever the attempts contain.
C17_ShortHistoryIsExploratory ==
    (detected # NoResult /\ Len(history) < 3) => detected = "exploratory"

C18_Unhurried ==
    LET lastThree == { i \in DOMAIN history : i > Len(history) - 3 }
    IN /\ Len(history) > 0
       /\ \A i \in lastThree :
             /\ history[i].interactionPattern # "frustrated"
             /\ history[i].timeSpent > Seconds(2000)
             /\ history[i].hintsUsed <= 1

-----------------------------------------------------------------------------
(* BasePattern: progress *)

\* updateProgress calls the model follows on one engine
MaxUpdates == 3

blendMasteryAdditive(masteryLevel, recentSuccessRate) ==
    Rat(10 * masteryLevel.num * recentSuccessRate.den
          + recentSuccessRate.num * masteryLevel.den,
        10 * masteryLevel.den * recentSuccessRate.den)

\* Math.min(1, masteryLevel * 0.9 + recentSuccessRate * 0.1)
blendMastery(masteryLevel, recentSuccessRate) ==
    LET blend == Rat(9 * masteryLevel.num * recentSuccessRate.den
                       + recentSuccessRate.num * masteryLevel.den,
                     10 * masteryLevel.den * recentSuccessRate.den)
    IN IF Gt(blend, Rat(1, 1)) THEN Rat(1, 1) ELSE blend

updateProgressCorrectOnly(p, a) ==
    LET totalAttempts == p.totalAttempts + 1
    IN [p EXCEPT
          !.totalAttempts = totalAttempts,
          !.successfulAttempts = IF a.isCorrect THEN @ + 1 ELSE @,
          !.averageTimeToSolve =
              Rat(@.num * (totalAttempts - 1) + a.timeSpent * @.den,
                  @.den * totalAttempts),
          !.lastPlayed = "updateProgress",
          !.masteryLevel = blendMastery(@, calculateSuccessRate(<<a>>))]

updateProgressSwappedCounters(p, a) ==
    LET successful == a.isCorrect \/ a.confidence > Conf(7)
        totalAttempts == IF successful THEN p.totalAttempts + 1
                         ELSE p.totalAttempts
    IN [p EXCEPT
          !.totalAttempts = totalAttempts,
          !.successfulAttempts = @ + 1,
          !.averageTimeToSolve =
              Rat(@.num * p.totalAttempts + a.timeSpent * @.den,
                  @.den * (p.totalAttempts + 1)),
          !.lastPlayed = "updateProgress",
          !.masteryLevel = blendMastery(@, calculateSuccessRate(<<a>>))]

\* BasePattern.updateProgress: the progress record it leaves behind
updateProgress(p, a) ==
    LET totalAttempts == p.totalAttempts + 1
    IN [p EXCEPT
          !.totalAttempts = totalAttempts,
          !.successfulAttempts =
              IF a.isCorrect \/ a.confidence > Conf(7) THEN @ + 1 ELSE @,
          !.averageTimeToSolve =
              Rat(@.num * (totalAttempts - 1) + a.timeSpent * @.den,
                  @.den * totalAttempts),
          !.lastPlayed = "updateProgress",
          !.masteryLevel = blendMastery(@, calculateSuccessRate(<<a>>))]

\* progress records a host passes to createPattern: the default one of a new
\* user, and those of a user with one earlier attempt, at either end and the
\* middle of the 0-1 mastery scale
ProgressRecords ==
    { [getDefaultProgress("user", "visual-sequence") EXCEPT
          !.totalAttempts = earlier[1],
          !.successfulAttempts = earlier[2],
          !.averageTimeToSolve = Rat(earlier[3], 1),
          !.masteryLevel = mastery]
      : earlier \in { <<0, 0, 0>>, <<1, 1, Seconds(10)>>, <<1, 0, Seconds(3)>> },
        mastery \in { Rat(0, 1), Rat(1, 2), Rat(1, 1) } }

InitProgress ==
    /\ config = getDefaultConfig("visual-sequence", Diff(3))
    /\ progress \in ProgressRecords
    /\ lastGeneratedPattern = NoPattern
    /\ history = <<>>
    /\ adaptResult = NoResult
    /\ puzzle = NoPattern
    /\ generated = NoPattern
    /\ generatedRule = NoRule
    /\ attempt = <<>>
    /\ solutions = <<>>
    /\ validation = NoValidation
    /\ fallbacks = 0
    /\ detected = NoResult
    /\ hint = <<NoResult>>
    /\ updated = NoAttempt
    /\ updateCalls = 0
    /\ created = createPattern("visual-sequence", config, progress)
    /\ StoreLoaded(<<>>)
    /\ lastCall = "createPattern"

\* engine.updateProgress(a)
CallUpdateProgress ==
    /\ progress.totalAttempts < MaxUpdates
    /\ \E a \in AttemptInputs :
          /\ updated' = a
          /\ progress' = updateProgress(progress, a)
    /\ updateCalls' = updateCalls + 1
    /\ lastCall' = "updateProgress"
    /\ UNCHANGED <<config, genVars, adaptVars, detectVars, factoryVars,
                   storeVars>>

NextProgress == CallUpdateProgress

SpecProgress == InitProgress /\ [][NextProgress]_vars

-----------------------------------------------------------------------------
(* Claims about updateProgress *)

\* C19: updateProgress(attempt) adds exactly 1 to totalAttempts, adds 1 to
\* successfulAttempts exactly when the attempt is correct or its confidence is
\* above 0.7, sets averageTimeToSolve to (oldAverage * oldTotal + timeSpent)
\* / newTotal and mastery to 0.9 * oldMastery + 0.1 * s (s = 1 for a
\* successful attempt, 0 otherwise); from totalAttempts = 0 one correct
\* attempt with timeSpent 10 gives average exactly 10 and successfulAttempts 1.
C19_UpdateProgress ==
    [][ (lastCall' = "updateProgress") =>
          LET successful == updated'.isCorrect \/ updated'.confidence > Conf(7)
              s == IF successful THEN 1 ELSE 0
              oldAverage == progress.averageTimeToSolve
              oldMastery == progress.masteryLevel
          IN /\ progress'.totalAttempts = progress.totalAttempts + 1
             /\ progress'.successfulAttempts = progress.successfulAttempts + s
             /\ Eq(progress'.averageTimeToSolve,
                   Rat(oldAverage.num * progress.totalAttempts
                         + updated'.timeSpent * oldAverage.den,
                       oldAverage.den * progress'.totalAttempts))
             /\ Eq(progress'.masteryLevel,
                   Rat(9 * oldMastery.num + s * oldMastery.den,
                       10 * oldMastery.den))
             /\ (/\ progress.totalAttempts = 0
                 /\ updated'.isCorrect
                 /\ updated'.timeSpent = Seconds(10))
                => /\ Eq(progress'.averageTimeToSolve, Rat(Seconds(10), 1))
                   /\ progress'.successfulAttempts = 1 ]_vars

\* the first attempt of a user was correct and took 10 seconds
C19_Witness ==
    /\ lastCall = "updateProgress"
    /\ progress.totalAttempts = 1
    /\ updated.isCorrect = TRUE
    /\ updated.timeSpent = Seconds(10)
    /\ progress.successfulAttempts = 1
    /\ Eq(progress.averageTimeToSolve, Rat(Seconds(10), 1))

-----------------------------------------------------------------------------
(* PatternFactory.createPattern *)

\* the host has no engine yet
InitFactory ==
    /\ config = NoPattern
    /\ progress = NoProgress
    /\ lastGeneratedPattern = NoPattern
    /\ history = <<>>
    /\ adaptResult = NoResult
    /\ puzzle = NoPattern
    /\ generated = NoPattern
    /\ generatedRule = NoRule
    /\ attempt = <<>>
    /\ solutions = <<>>
    /\ validation = NoValidation
    /\ fallbacks = 0
    /\ detected = NoResult
    /\ hint = <<NoResult>>
    /\ updated = NoAttempt
    /\ updateCalls = 0
    /\ created = NotCreated
    /\ StoreLoaded(<<>>)
    /\ lastCall = "import"

\* engine = PatternFactory.createPattern(type, getDefaultConfig(type, d),
\* getDefaultProgress(user, type)); on a throw the host keeps the engine it had
CallCreatePattern ==
    /\ \E type \in PatternTypes \cup {UnknownType}, d \in Difficulties :
          LET cfg == getDefaultConfig(type, d)
              p == getDefaultProgress("user", type)
              outcome == createPattern(type, cfg, p)
          IN /\ created' = outcome
             /\ IF outcome.returned = "VisualSequencePattern"
                THEN /\ config' = cfg
                     /\ progress' = p
                     /\ lastGeneratedPattern' = NoPattern
                ELSE UNCHANGED <<config, progress, lastGeneratedPattern>>
    /\ lastCall' = "createPattern"
    /\ UNCHANGED <<adaptVars, puzzle, generated, generatedRule, attempt,
                   solutions, validation, fallbacks, detectVars, progressVars,
                   storeVars>>

NextFactory == CallCreatePattern

SpecFactory == InitFactory /\ [][NextFactory]_vars

\* C21: createPattern returns an engine instance exactly when the type is
\* 'visual-sequence'; for 'number', 'musical', 'spatial' and 'rule-based' it
\* fails with an explicit not-yet-implemented error and constructs nothing.
C21_OnlyVisualSequence ==
    [][ (lastCall' = "createPattern") =>
          /\ created'.returned = "VisualSequencePattern"
                <=> created'.type = "visual-sequence"
          /\ created'.returned # Undefined <=> created'.thrown = Undefined
          /\ created'.type \in {"number", "musical", "spatial", "rule-based"}
                => /\ created'.returned = Undefined
                   /\ created'.thrown \in
                         { "NumberPattern not yet implemented",
                           "MusicalPattern not yet implemented",
                           "SpatialRotationPattern not yet implemented",
                           "RuleBasedPattern not yet implemented" }
                   /\ UNCHANGED <<config, progress, lastGeneratedPattern>>
          /\ created'.returned = "VisualSequencePattern"
                => /\ config'.patternType = "visual-sequence"
                   /\ progress'.patternType = "visual-sequence" ]_vars

\* a host holding a visual-sequence engine has asked for a 'musical' one, been
\* refused, and still holds the engine it had
C21_Witness ==
    /\ lastCall = "createPattern"
    /\ created.type = "musical"
    /\ created.thrown = "MusicalPattern not yet implemented"
    /\ config.patternType = "visual-sequence"

-----------------------------------------------------------------------------
(* Claims about generate and validateSolution, continued *)

C22_BaseRules ==
    << SequenceRule("increment", "size", <<>>, 1, Undefined),
       SequenceRule("alternating", "color", <<>>, 0, Undefined),
       SequenceRule("pattern", "shape", <<"circle", "square">>, 0, Undefined),
       SequenceRule("increment", "rotation", <<>>, 45, Undefined) >>

C22_AdvancedRules ==
    << SequenceRule("pattern", "shape", <<"circle", "square", "triangle">>, 0,
                    Undefined),
       SequenceRule("conditional", "color", <<>>, 0,
                    "if_shape_circle_then_blue") >>

\* C22: the rule generate() selects is one of the first
\* min(poolSize, 1 + floor(difficulty / 2)) entries of the pool; the pool is
\* the four base rules up to difficulty 5, and an advanced rule (3-shape
\* cycle, conditional color) is selected only at a difficulty above 5.
C22_RuleSelection ==
    (generatedRule # NoRule) =>
       LET pool == IF config.difficulty <= Diff(5)
                   THEN C22_BaseRules
                   ELSE C22_BaseRules \o C22_AdvancedRules
           eligible == Min(Len(pool), 1 + (config.difficulty \div Diff(2)))
       IN /\ \E i \in 1 .. eligible : generatedRule = pool[i]
          /\ (\E i \in DOMAIN C22_AdvancedRules :
                 generatedRule = C22_AdvancedRules[i])
             => config.difficulty > Diff(5)

\* the 3-shape cycle has been selected
C22_Witness ==
    /\ lastCall = "generate"
    /\ generatedRule = C22_AdvancedRules[1]
    /\ config.difficulty > Diff(5)

\* C24: in a generated config every masked position has its shape cleared and
\* its color set to the neutral placeholder while its size, rotation, stroke
\* width, fill, id and position are those of the unmasked element; every
\* other position is returned unchanged; and the elements in validSolutions
\* keep their real shape and color.
C24_MaskingFrame ==
    (generated # NoPattern) =>
       LET unmasked == generateSequence(Len(generated.elements), generatedRule)
           missingPositions ==
               calculateMissingPositions(Len(generated.elements),
                                         config.difficulty)
       IN /\ \A i \in PositionsOf(generated) :
                LET shown == At(generated.elements, i)
                    real == At(unmasked, i)
                IN IF Includes(missingPositions, i)
                   THEN /\ shown.properties.shape = Undefined
                        /\ shown.properties.color = PlaceholderColor
                        /\ shown.properties.size = real.properties.size
                        /\ shown.properties.rotation = real.properties.rotation
                        /\ shown.properties.strokeWidth
                              = real.properties.strokeWidth
                        /\ shown.properties.fill = real.properties.fill
                        /\ shown.id = real.id
                        /\ shown.position = real.position
                   ELSE shown = real
          /\ \A n \in DOMAIN generated.validSolutions :
                \A k \in DOMAIN generated.validSolutions[n].elements :
                   LET kept == generated.validSolutions[n].elements[k]
                       real == At(unmasked, missingPositions[k])
                   IN /\ kept.properties.shape = real.properties.shape
                      /\ kept.properties.color = real.properties.color
                      /\ kept.properties.shape # Undefined
                      /\ kept.properties.color # PlaceholderColor

\* a puzzle governed by rotation has been returned: its masked elements show
\* their rotation but neither shape nor color
C24_Witness ==
    /\ lastCall = "generate"
    /\ \E i \in MaskedPositions(puzzle) :
          /\ At(puzzle.elements, i).properties.color = PlaceholderColor
          /\ At(puzzle.elements, i).properties.rotation > 0

C26_WrongLengthAccepted ==
    (/\ lastCall = "validateSolution"
     /\ Len(attempt) > 0
     /\ Len(attempt) # Cardinality(MaskedPositions(lastGeneratedPattern)))
    => (validation.isValid = TRUE /\ validation.confidence = Conf(9))

\* an answer twice as long as the gap has been accepted at 0.9
C26_Witness ==
    /\ lastCall = "validateSolution"
    /\ Len(attempt) = 2 * Cardinality(MaskedPositions(lastGeneratedPattern))
    /\ validation.isValid = TRUE
    /\ validation.confidence = Conf(9)

\* the attempt with the same shape, color and size at every position, but
\* turned, restyled, renamed and moved
C27_Variants(att) ==
    { [n \in DOMAIN att |->
          [att[n] EXCEPT !.properties.rotation = (@ + 45) % 360,
                         !.properties.strokeWidth = @ + 1,
                         !.properties.fill = ~ @]],
      [n \in DOMAIN att |->
          [att[n] EXCEPT !.id = <<"dragged-", n>>,
                         !.position = [x |-> 0, y |-> 0]]] }

\* C27: two attempts that agree on shape, color and size at every position
\* but differ in rotation, stroke width, fill, id or position receive the
\* same isValid, confidence and feedback from the same instance state, even
\* when the governing rule is the rotation increment.
C27_OnlyShapeColorSize ==
    (lastCall = "validateSolution") =>
       \A other \in C27_Variants(attempt) :
          LET result == validateSolution(other, solutions)
          IN /\ result.isValid = validation.isValid
             /\ result.confidence = validation.confidence
             /\ result.feedback = validation.feedback

\* under a rotation rule the canonical answer is valid, and so is the same
\* answer with every rotation wrong
C27_Witness ==
    /\ lastCall = "validateSolution"
    /\ fallbacks = 1
    /\ generatedRule.property = "rotation"
    /\ attempt = solutions[1].elements
    /\ validation.confidence = Conf(10)
    /\ \E other \in C27_Variants(attempt) :
          /\ other[1].properties.rotation # attempt[1].properties.rotation
          /\ validateSolution(other, solutions).confidence = Conf(10)

-----------------------------------------------------------------------------
(* Hints for a generated puzzle *)

\* the caller generates puzzles, records attempts and asks for hints
NextHint == CallGenerate \/ NextDetect

SpecHint == InitDetect /\ [][NextHint]_vars

\* C23: when the interaction pattern is classified 'systematic', the hint
\* getHint returns names the property that governs the puzzle most recently
\* generated on the instance.
C23_HintNamesGoverningProperty ==
    (/\ lastCall = "getHint"
     /\ generatedRule # NoRule
     /\ detectInteractionPattern(history) = "systematic")
    => hint = <<"Focus on the ", generatedRule.property,
                " property. What mathematical relationship do you notice?">>

-----------------------------------------------------------------------------
(* BasePattern: progress counters under updateProgress and adaptDifficulty *)

\* the recent attempts a host passes to adaptDifficulty: none, one or two
RecentAttempts ==
    {<<>>} \cup { <<a>> : a \in AttemptInputs }
           \cup { <<a, b>> : a \in AttemptInputs, b \in AttemptInputs }

\* a new user's engine
InitCounters ==
    /\ config = getDefaultConfig("visual-sequence", Diff(3))
    /\ progress = getDefaultProgress("user", "visual-sequence")
    /\ lastGeneratedPattern = NoPattern
    /\ history = <<>>
    /\ adaptResult = NoResult
    /\ puzzle = NoPattern
    /\ generated = NoPattern
    /\ generatedRule = NoRule
    /\ attempt = <<>>
    /\ solutions = <<>>
    /\ validation = NoValidation
    /\ fallbacks = 0
    /\ detected = NoResult
    /\ hint = <<NoResult>>
    /\ updated = NoAttempt
    /\ updateCalls = 0
    /\ created = createPattern("visual-sequence", config, progress)
    /\ StoreLoaded(<<>>)
    /\ lastCall = "createPattern"

\* engine.adaptDifficulty(recentAttempts)
CallAdaptDifficultyOnRecent ==
    /\ \E recentAttempts \in RecentAttempts :
          /\ history' = recentAttempts
          /\ adaptResult' = adaptDifficulty(recentAttempts, progress)
    /\ lastCall' = "adaptDifficulty"
    /\ UNCHANGED <<engineVars, genVars, detectVars, progressVars, factoryVars,
                   storeVars>>

NextCounters == CallUpdateProgress \/ CallAdaptDifficultyOnRecent

SpecCounters == InitCounters /\ [][NextCounters]_vars

\* C28: from the default progress record, after any sequence of
\* updateProgress and adaptDifficulty calls, 0 <= successfulAttempts <=
\* totalAttempts, totalAttempts is the number of updateProgress calls made,
\* and progress.currentDifficulty has not been modified.
C28_ProgressCounters ==
    /\ 0 <= progress.successfulAttempts
    /\ progress.successfulAttempts <= progress.totalAttempts
    /\ progress.totalAttempts = updateCalls
    /\ progress.currentDifficulty = Diff(1)

\* after two attempts, one of them successful, adaptDifficulty has proposed a
\* higher difficulty and the record still holds the default one
C28_Witness ==
    /\ lastCall = "adaptDifficulty"
    /\ updateCalls = 2
    /\ progress.successfulAttempts = 1
    /\ adaptResult > progress.currentDifficulty

-----------------------------------------------------------------------------
(* User data store: trackInteractionPattern *)

\* Math.random().toString(36).substr(2, 9): two of the possible suffixes
RandomSuffixes == {"k3x9q0a1b", "z7m2c4d8e"}

currentSessionId == <<"session-", 0, "-", "k3x9q0a1b">>

\* a record already in the user's profile when the store is loaded
PersistedPattern ==
    [pattern |-> 0,
     id |-> <<"interaction-", 0, "-", "z7m2c4d8e">>,
     createdAt |-> 0,
     updatedAt |-> 0]

InitStore ==
    /\ config = getDefaultConfig("visual-sequence", Diff(3))
    /\ progress = getDefaultProgress("user", "visual-sequence")
    /\ lastGeneratedPattern = NoPattern
    /\ history = <<>>
    /\ adaptResult = NoResult
    /\ puzzle = NoPattern
    /\ generated = NoPattern
    /\ generatedRule = NoRule
    /\ attempt = <<>>
    /\ solutions = <<>>
    /\ validation = NoValidation
    /\ fallbacks = 0
    /\ detected = NoResult
    /\ hint = <<NoResult>>
    /\ updated = NoAttempt
    /\ updateCalls = 0
    /\ created = createPattern("visual-sequence", config, progress)
    /\ \E list \in {<<>>, <<PersistedPattern>>} : StoreLoaded(list)
    /\ lastCall = "loadUserData"

engineAtRest == <<engineVars, genVars, adaptVars, detectVars, progressVars,
                  factoryVars>>

\* trackInteractionPattern(pattern) up to its await: reads the list, builds
\* fullPattern and calls saveBehavioralData, which awaits ensureInit()
TrackBegin(c) ==
    /\ tracking[c].pc = "notCalled"
    /\ \E suffix \in RandomSuffixes :
          tracking' =
             [tracking EXCEPT ![c] =
                [pc |-> "ensureInit",
                 currentSessionId |-> currentSessionId,
                 interactionPatterns |-> interactionPatterns,
                 fullPattern |->
                    [pattern |-> c,
                     id |-> <<"interaction-", now, "-", suffix>>,
                     createdAt |-> now,
                     updatedAt |-> now]]]
    /\ lastCall' = "trackInteractionPattern"
    /\ UNCHANGED <<engineAtRest, interactionPatterns, loadedPatterns,
                   behavioralData, now>>

\* saveBehavioralData after ensureInit(): builds behavioralRecord and puts
\* it; the object store is keyed by id, so a record with the same id is
\* replaced
SaveBehavioralDataPut(c) ==
    /\ tracking[c].pc = "ensureInit"
    /\ LET behavioralRecord ==
              [id |-> <<tracking[c].currentSessionId, "-", "interaction", "-",
                        now>>,
               type |-> "interaction",
               sessionId |-> tracking[c].currentSessionId,
               data |-> tracking[c].fullPattern,
               createdAt |-> now,
               updatedAt |-> now]
       IN behavioralData' =
             { r \in behavioralData : r.id # behavioralRecord.id }
                \cup {behavioralRecord}
    /\ tracking' = [tracking EXCEPT ![c].pc = "put"]
    /\ UNCHANGED <<engineAtRest, interactionPatterns, loadedPatterns, now,
                   lastCall>>

\* ensureInit or db.put rejects: saveBehavioralData throws, and so does
\* trackInteractionPattern, before it reaches set()
SaveBehavioralDataFails(c) ==
    /\ tracking[c].pc = "ensureInit"
    /\ tracking' = [tracking EXCEPT ![c].pc = "failed"]
    /\ UNCHANGED <<engineAtRest, interactionPatterns, loadedPatterns,
                   behavioralData, now, lastCall>>

\* the await returns: set(state => ({...state, interactionPatterns:
\* [...interactionPatterns, fullPattern]})) with the list read before it
TrackSet(c) ==
    /\ tracking[c].pc = "put"
    /\ interactionPatterns' =
          Append(tracking[c].interactionPatterns, tracking[c].fullPattern)
    /\ tracking' = [tracking EXCEPT ![c].pc = "done"]
    /\ UNCHANGED <<engineAtRest, loadedPatterns, behavioralData, now,
                   lastCall>>

\* a millisecond passes
Tick ==
    /\ now < MaxNow
    /\ now' = now + 1
    /\ UNCHANGED <<engineAtRest, interactionPatterns, loadedPatterns,
                   behavioralData, tracking, lastCall>>

NextStore ==
    \/ \E c \in Calls : TrackBegin(c)
    \/ \E c \in Calls : SaveBehavioralDataPut(c)
    \/ \E c \in Calls : SaveBehavioralDataFails(c)
    \/ \E c \in Calls : TrackSet(c)
    \/ Tick

SpecStore == InitStore /\ [][NextStore]_vars

Completed == { c \in Calls : tracking[c].pc = "done" }

\* C29: every trackInteractionPattern call that completes leaves its record
\* in the interactionPatterns list, under every interleaving of concurrent
\* calls: after n calls have completed from a list of length k the list has
\* length k + n.
C29_NoLostRecord ==
    /\ \A c \in Completed :
          \E i \in DOMAIN interactionPatterns :
             interactionPatterns[i] = tracking[c].fullPattern
    /\ Len(interactionPatterns) = Len(loadedPatterns) + Cardinality(Completed)

=============================================================================
